---- MODULE Spec2Model ----
(***************************************************************************)
(* The view/request state machine of the coloring-book application:        *)
(* the App component (src/App.tsx), the controls of its children that      *)
(* forward user intents (src/components/Header.tsx, src/unnamed/part_000)  *)
(* and the two service clients (src/components/Header.tsx:336-442).        *)
(*                                                                         *)
(* One action is one run-to-completion task of the UI event loop: the      *)
(* synchronous part of a handler or of a promise continuation, the render  *)
(* React commits for the batched updates, and the passive effect of        *)
(* App.tsx:159-181 that runs after that commit.                            *)
(***************************************************************************)
EXTENDS Naturals, Integers, Sequences, FiniteSets, TLC

\* ------------------------------------------------------------------ bounds
MaxCalls == 2      \* prompt requests issued in one run
MaxLen == 1        \* characters of a transcript or of a response text
MaxParts == 1      \* parts of one image response
NumLocators == 2   \* distinct image payloads the provider can return
MaxRecognitions == 1 \* SpeechRecognition objects created in one run

\* ------------------------------------------------------------- vocabulary
IDLE == "IDLE"
LOADING == "LOADING"
SUCCESS == "SUCCESS"
ERROR == "ERROR"
ApiState == {IDLE, LOADING, SUCCESS, ERROR}

promptInput == "promptInput"
imageDisplay == "imageDisplay"

\* error: string | null.  The three messages the App can store.
Null == "null"
EmptyInputMsg == "Please enter an idea to generate a prompt."
PromptFailedMsg == "Failed to generate prompt: ..."
ImageFailedMsg == "Failed to generate image: ..."

\* alert() texts of handlePrintSelectedImages
SelectNotice == "Please select at least one image to print."
PopupNotice == "Could not open print window. Please allow pop-ups."

\* alert() texts of handleStartRecording and of recognition.onerror
UnsupportedNotice == "Your browser does not support Speech Recognition."
SpeechErrorCodes == {"not-allowed", "aborted"}
SpeechErrorMessage(code) ==
  IF code = "not-allowed" THEN "Microphone permission denied."
  ELSE IF code = "no-speech" THEN "No speech detected. Please try again."
  ELSE IF code = "network" THEN "Network error."
  ELSE "An error occurred during speech recognition."

\* Text is a sequence of characters; " " is the only whitespace used.
Chars == {" ", "c"}
Texts == UNION {[1..n -> Chars] : n \in 0..MaxLen}

\* What one recognition result event carries as final text and as interim
\* text: nothing or one word.
Chunks == {<<>>, <<"c">>}

\* Dictation appends to the transcript; the model lets it grow by one
\* separator and one word beyond what can be typed.
MaxTranscript == MaxLen + 2

\* A locator is the data URL extractImageUrl builds from one inline payload.
Locators == {<<"data", d>> : d \in 1..NumLocators}

\* Parts of an image response: a text part, an inline part without a
\* mimeType, or an inline part with mimeType and data d.
TextPart == [kind |-> "text", data |-> 0]
NoMimePart == [kind |-> "nomime", data |-> 0]
InlinePart(d) == [kind |-> "inline", data |-> d]
Parts == {TextPart, NoMimePart} \cup {InlinePart(d) : d \in 1..NumLocators}
PartLists == UNION {[1..n -> Parts] : n \in 0..MaxParts}

\* What ai.models.generateContent can do for an image request.
ImageResponses ==
  {[ok |-> FALSE, parts |-> <<>>]} \cup {[ok |-> TRUE, parts |-> ps] : ps \in PartLists}

\* What ai.models.generateContent can do for a prompt request.
PromptResponses ==
  {[ok |-> FALSE, hasText |-> FALSE, text |-> <<>>],
   [ok |-> TRUE, hasText |-> FALSE, text |-> <<>>]}
  \cup {[ok |-> TRUE, hasText |-> TRUE, text |-> t] : t \in Texts}

\* ------------------------------------------------------------------ state
VARIABLES
  transcript,          \* App.tsx:14
  generatedPrompt,     \* App.tsx:15
  imageUrls,           \* App.tsx:16   (<<>> stands for null)
  selectedImageUrls,   \* App.tsx:17
  promptApiState,      \* App.tsx:19
  imageApiState,       \* App.tsx:20
  error,               \* App.tsx:21
  currentPage,         \* App.tsx:22
  promptPending,       \* generateColoringBookPrompt calls not yet settled
  nPromptCalls,        \* generateColoringBookPrompt calls issued so far
  imagePending,        \* generateColoringBookImage calls not yet settled
  nImageCalls,         \* generateColoringBookImage calls issued so far
  printWindow,         \* the document last written by handlePrintSelectedImages
  notice,              \* the text of the last alert()
  speechSupported,     \* 'SpeechRecognition' in window || 'webkitSpeechRecognition' in window
  isRecording,         \* Header.tsx:164
  interimSpeechResult, \* Header.tsx:165
  recognitions,        \* the SpeechRecognition objects created so far
  recognitionRef       \* Header.tsx:166  (0 stands for null)

session == <<transcript, generatedPrompt, imageUrls, selectedImageUrls,
             promptApiState, imageApiState, error, currentPage>>
calls == <<promptPending, nPromptCalls, imagePending, nImageCalls>>
printer == <<printWindow, notice>>
dictation == <<speechSupported, isRecording, interimSpeechResult,
               recognitions, recognitionRef>>
vars == <<session, calls, printer, dictation>>

\* ---------------------------------------------------------- pure functions
RECURSIVE TrimStart(_)
TrimStart(t) ==
  IF t # <<>> /\ Head(t) = " " THEN TrimStart(Tail(t)) ELSE t

RECURSIVE TrimEnd(_)
TrimEnd(t) ==
  IF t # <<>> /\ t[Len(t)] = " " THEN TrimEnd(SubSeq(t, 1, Len(t) - 1)) ELSE t

\* String.prototype.trim
Trim(t) == TrimEnd(TrimStart(t))

Includes(seq, x) == \E i \in 1..Len(seq) : seq[i] = x

RECURSIVE Filter(_, _)
\* prevSelected.filter((selectedUrl) => selectedUrl !== url)
Filter(seq, url) ==
  IF seq = <<>> THEN <<>>
  ELSE IF Head(seq) # url THEN <<Head(seq)>> \o Filter(Tail(seq), url)
       ELSE Filter(Tail(seq), url)

\* Toggle with the removal branch lost: a selected locator stays selected.
ToggleNeverRemoves(prevSelected, url) ==
  IF Includes(prevSelected, url) THEN prevSelected
  ELSE Append(prevSelected, url)

\* The updater of handleToggleImageSelection.
Toggle(prevSelected, url) ==
  IF Includes(prevSelected, url) THEN Filter(prevSelected, url)
  ELSE Append(prevSelected, url)

\* PromptThrows without the `if (!text)` test.
PromptThrowsOnlyOnError(resp) == ~resp.ok

\* generateColoringBookPrompt: the text it resolves with, or <<>> when it
\* throws (it never resolves with an empty text).
PromptThrows(resp) ==
  \/ ~resp.ok
  \/ ~resp.hasText
  \/ Trim(resp.text) = <<>>

PromptText(resp) == Trim(resp.text)

\* extractImageUrl: the first part with inlineData and a mimeType.
RECURSIVE ExtractImageUrl(_)
ExtractImageUrl(parts) ==
  IF parts = <<>> THEN <<>>
  ELSE IF Head(parts).kind = "inline" THEN <<"data", Head(parts).data>>
       ELSE ExtractImageUrl(Tail(parts))

ImageThrows(resp) == ~resp.ok \/ ExtractImageUrl(resp.parts) = <<>>

\* ------------------------------------------------------------- the render
\* The fields of the App component as one record.
Cur ==
  [transcript |-> transcript, generatedPrompt |-> generatedPrompt,
   imageUrls |-> imageUrls, selectedImageUrls |-> selectedImageUrls,
   promptApiState |-> promptApiState, imageApiState |-> imageApiState,
   error |-> error, currentPage |-> currentPage]

\* The dependency array of the effect changed between two renders.
DepsChanged(old, new) ==
  \/ old.generatedPrompt # new.generatedPrompt
  \/ old.promptApiState # new.promptApiState
  \/ old.currentPage # new.currentPage

\* ImageCondition without the currentPage test.
ImageConditionAnyPage(s) ==
  /\ s.promptApiState = SUCCESS
  /\ s.generatedPrompt # <<>>

\* The condition handleGenerateImage tests.
ImageCondition(s) ==
  /\ s.promptApiState = SUCCESS
  /\ s.generatedPrompt # <<>>
  /\ s.currentPage = imageDisplay

EffectRuns(old, new) == DepsChanged(old, new) /\ ImageCondition(new)

\* The synchronous part of handleGenerateImage, up to its await.
StartImage(s) ==
  [s EXCEPT !.error = Null, !.imageApiState = LOADING,
            !.imageUrls = <<>>, !.selectedImageUrls = <<>>]

NewImageCall(s) ==
  [id |-> nImageCalls + 1, prompt |-> s.generatedPrompt, stage |-> 1, urls |-> <<>>]

\* Commit the batched updates `new`, then run the effect.  `pending` is the
\* set of image calls still outstanding after the task itself.
Render(new, pending) ==
  LET fires == EffectRuns(Cur, new)
      s == IF fires THEN StartImage(new) ELSE new
  IN /\ transcript' = s.transcript
     /\ generatedPrompt' = s.generatedPrompt
     /\ imageUrls' = s.imageUrls
     /\ selectedImageUrls' = s.selectedImageUrls
     /\ promptApiState' = s.promptApiState
     /\ imageApiState' = s.imageApiState
     /\ error' = s.error
     /\ currentPage' = s.currentPage
     /\ imagePending' = IF fires THEN pending \cup {NewImageCall(new)} ELSE pending
     /\ nImageCalls' = IF fires THEN nImageCalls + 1 ELSE nImageCalls

Init ==
  /\ transcript = <<>>
  /\ generatedPrompt = <<>>
  /\ imageUrls = <<>>
  /\ selectedImageUrls = <<>>
  /\ promptApiState = IDLE
  /\ imageApiState = IDLE
  /\ error = Null
  /\ currentPage = promptInput
  /\ promptPending = 0
  /\ nPromptCalls = 0
  /\ imagePending = {}
  /\ nImageCalls = 0
  /\ printWindow = [open |-> FALSE, pages |-> <<>>]
  /\ notice = Null
  /\ speechSupported \in BOOLEAN
  /\ isRecording = FALSE
  /\ interimSpeechResult = <<>>
  /\ recognitions = <<>>
  /\ recognitionRef = 0


\* ----------------------------------------------------- what the view shows
\* PromptInput: const isLoading = promptApiState === ApiState.LOADING
IsLoading == promptApiState = LOADING

\* PromptInput: displayTranscript
DisplayTranscript ==
  IF isRecording
  THEN (IF transcript # <<>> THEN transcript \o <<" ">> ELSE <<>>) \o interimSpeechResult
  ELSE transcript

\* PromptInput: the disabled attribute of the submit button.
SubmitDisabled == IsLoading \/ isRecording \/ Trim(DisplayTranscript) = <<>>

\* PromptInput: the disabled attribute of the textarea.
TextareaDisabled == IsLoading \/ isRecording

\* PromptInput: the disabled attribute of the microphone button.
MicDisabled == IsLoading

\* The error prop App passes to ImageDisplay.
ImageError == IF imageApiState = ERROR THEN error ELSE Null

\* ImageDisplay: showImages and canPrint.
ShowImages ==
  /\ imageApiState # LOADING
  /\ ImageError = Null
  /\ Len(imageUrls) > 0

CanPrint == ShowImages /\ Len(selectedImageUrls) > 0

\* --------------------------------------------------------------- dictation
\* A recognition object: where the browser's recognizer is, whether its
\* onresult/onend/onerror handlers are still set, and whether the PromptInput
\* that created it is still mounted (its setIsRecording still has an effect).
\*   starting   start() called, no start event yet
\*   listening  start event delivered
\*   stopping   stop() called while listening: a last result may come, then end
\*   closing    error delivered, or stop() called before the start event:
\*              only the end event follows
\*   ended      end event delivered
NewRecognition == [state |-> "starting", attached |-> TRUE, mounted |-> TRUE]
EndedRecognition == [state |-> "ended", attached |-> FALSE, mounted |-> FALSE]

\* recognition.stop()
StopState(state) ==
  IF state = "listening" THEN "stopping"
  ELSE IF state = "starting" THEN "closing"
  ELSE state

\* recognitionRef.current?.stop()
StopRef(recs, ref) ==
  IF ref # 0 THEN [recs EXCEPT ![ref].state = StopState(recs[ref].state)] ELSE recs

\* The cleanup of PromptInput's effect (Header.tsx:168-177) and the loss of
\* the component's state: the page no longer renders PromptInput.
UnmountPromptInput ==
  /\ recognitions' =
       [i \in DOMAIN recognitions |->
          IF recognitions[i].state = "ended" THEN recognitions[i]
          ELSE [state |-> IF i = recognitionRef THEN StopState(recognitions[i].state)
                          ELSE recognitions[i].state,
                attached |-> recognitions[i].attached /\ i # recognitionRef,
                mounted |-> FALSE]]
  /\ recognitionRef' = 0
  /\ isRecording' = FALSE
  /\ interimSpeechResult' = <<>>
  /\ UNCHANGED speechSupported

\* setTranscript((prev) => (prev ? prev + ' ' : '') + finalTranscript)
AppendFinal(prev, finalTranscript) ==
  (IF prev # <<>> THEN prev \o <<" ">> ELSE <<>>) \o finalTranscript

\* handleStartRecording
HandleStartRecording ==
  IF ~speechSupported
  THEN /\ notice' = UnsupportedNotice
       /\ UNCHANGED <<session, calls, printWindow, dictation>>
  ELSE /\ Len(recognitions) < MaxRecognitions
       /\ recognitions' = Append(recognitions, NewRecognition)
       /\ recognitionRef' = Len(recognitions) + 1
       /\ UNCHANGED <<session, calls, printer, speechSupported, isRecording,
                      interimSpeechResult>>

\* handleStopRecording
HandleStopRecording ==
  /\ recognitions' = StopRef(recognitions, recognitionRef)
  /\ isRecording' = FALSE
  /\ interimSpeechResult' = <<>>
  /\ UNCHANGED <<session, calls, printer, speechSupported, recognitionRef>>

\* recognition.onstart (the cleanup never clears this handler)
RecognitionStart(i) ==
  /\ i \in DOMAIN recognitions
  /\ recognitions[i].state = "starting"
  /\ recognitions' = [recognitions EXCEPT ![i].state = "listening"]
  /\ IF recognitions[i].mounted
     THEN isRecording' = TRUE /\ interimSpeechResult' = <<>>
     ELSE UNCHANGED <<isRecording, interimSpeechResult>>
  /\ Render([Cur EXCEPT !.transcript = <<>>], imagePending)
  /\ UNCHANGED <<promptPending, nPromptCalls, printer, speechSupported, recognitionRef>>

\* RecognitionResult that appends the interim text as well.
RecognitionResultAppendsInterim(i, finalTranscript, currentInterim) ==
  /\ i \in DOMAIN recognitions
  /\ recognitions[i].state \in {"listening", "stopping"}
  /\ recognitions[i].attached
  /\ Len(AppendFinal(transcript, finalTranscript \o currentInterim)) <= MaxTranscript
  /\ IF recognitions[i].mounted
     THEN interimSpeechResult' = currentInterim
     ELSE UNCHANGED interimSpeechResult
  /\ Render([Cur EXCEPT !.transcript =
               IF finalTranscript \o currentInterim # <<>>
               THEN AppendFinal(transcript, finalTranscript \o currentInterim)
               ELSE transcript], imagePending)
  /\ UNCHANGED <<promptPending, nPromptCalls, printer, speechSupported,
                 isRecording, recognitions, recognitionRef>>

\* recognition.onresult with the final and the interim text of the event
RecognitionResult(i, finalTranscript, currentInterim) ==
  /\ i \in DOMAIN recognitions
  /\ recognitions[i].state \in {"listening", "stopping"}
  /\ recognitions[i].attached
  /\ Len(AppendFinal(transcript, finalTranscript)) <= MaxTranscript
  /\ IF recognitions[i].mounted
     THEN interimSpeechResult' = currentInterim
     ELSE UNCHANGED interimSpeechResult
  /\ Render([Cur EXCEPT !.transcript =
               IF finalTranscript # <<>> THEN AppendFinal(transcript, finalTranscript)
               ELSE transcript], imagePending)
  /\ UNCHANGED <<promptPending, nPromptCalls, printer, speechSupported,
                 isRecording, recognitions, recognitionRef>>

\* recognition.onerror; the end event follows
RecognitionError(i, code) ==
  /\ i \in DOMAIN recognitions
  /\ recognitions[i].state \in {"starting", "listening", "stopping"}
  /\ recognitions' = [recognitions EXCEPT ![i].state = "closing"]
  /\ IF recognitions[i].attached
     THEN /\ notice' = SpeechErrorMessage(code)
          /\ IF recognitions[i].mounted
             THEN isRecording' = FALSE /\ interimSpeechResult' = <<>>
             ELSE UNCHANGED <<isRecording, interimSpeechResult>>
     ELSE UNCHANGED <<notice, isRecording, interimSpeechResult>>
  /\ UNCHANGED <<session, calls, printWindow, speechSupported, recognitionRef>>

\* recognition.onend
RecognitionEnd(i) ==
  /\ i \in DOMAIN recognitions
  /\ recognitions[i].state \in {"listening", "stopping", "closing"}
  /\ LET ended == [recognitions EXCEPT ![i] = EndedRecognition]
     IN IF recognitions[i].attached /\ recognitions[i].mounted
        THEN /\ recognitions' = StopRef(ended, recognitionRef)
             /\ isRecording' = FALSE
             /\ interimSpeechResult' = <<>>
        ELSE /\ recognitions' = ended
             /\ UNCHANGED <<isRecording, interimSpeechResult>>
  /\ UNCHANGED <<session, calls, printer, speechSupported, recognitionRef>>

\* ---------------------------------------------------------------- handlers
\* onChange of the textarea: setTranscript(e.target.value)
SetTranscript(text) ==
  /\ Render([Cur EXCEPT !.transcript = text], imagePending)
  /\ UNCHANGED <<promptPending, nPromptCalls, printer, dictation>>

\* HandleGeneratePrompt without the `!transcript.trim()` return.
HandleGeneratePromptUnvalidated ==
  /\ nPromptCalls < MaxCalls
  /\ Render([Cur EXCEPT !.error = Null, !.promptApiState = LOADING,
                        !.imageApiState = IDLE, !.imageUrls = <<>>,
                        !.selectedImageUrls = <<>>], imagePending)
  /\ promptPending' = promptPending + 1
  /\ nPromptCalls' = nPromptCalls + 1
  /\ UNCHANGED <<printer, dictation>>

\* handleGeneratePrompt up to its return or its await.
HandleGeneratePrompt ==
  LET reset == [Cur EXCEPT !.error = Null, !.promptApiState = LOADING,
                           !.imageApiState = IDLE, !.imageUrls = <<>>,
                           !.selectedImageUrls = <<>>]
  IN IF Trim(transcript) = <<>>
     THEN /\ Render([reset EXCEPT !.error = EmptyInputMsg,
                                  !.promptApiState = ERROR], imagePending)
          /\ UNCHANGED <<promptPending, nPromptCalls, printer, dictation>>
     ELSE /\ nPromptCalls < MaxCalls
          /\ Render(reset, imagePending)
          /\ promptPending' = promptPending + 1
          /\ nPromptCalls' = nPromptCalls + 1
          /\ UNCHANGED <<printer, dictation>>

\* handleGeneratePrompt after its await, the call having resolved.
PromptSucceeded(resp) ==
  /\ promptPending > 0
  /\ ~PromptThrows(resp)
  /\ Render([Cur EXCEPT !.generatedPrompt = PromptText(resp),
                        !.promptApiState = SUCCESS,
                        !.currentPage = imageDisplay], imagePending)
  /\ promptPending' = promptPending - 1
  /\ IF currentPage = promptInput THEN UnmountPromptInput ELSE UNCHANGED dictation
  /\ UNCHANGED <<nPromptCalls, printer>>

\* PromptFailed that also navigates to the image page.
PromptFailedNavigates(resp) ==
  /\ promptPending > 0
  /\ PromptThrows(resp)
  /\ Render([Cur EXCEPT !.error = PromptFailedMsg,
                        !.promptApiState = ERROR,
                        !.generatedPrompt = <<>>,
                        !.currentPage = imageDisplay], imagePending)
  /\ promptPending' = promptPending - 1
  /\ IF currentPage = promptInput THEN UnmountPromptInput ELSE UNCHANGED dictation
  /\ UNCHANGED <<nPromptCalls, printer>>

\* PromptFailed without `setPromptApiState(ApiState.ERROR)`.
PromptFailedKeepsLoading(resp) ==
  /\ promptPending > 0
  /\ PromptThrows(resp)
  /\ Render([Cur EXCEPT !.error = PromptFailedMsg,
                        !.generatedPrompt = <<>>], imagePending)
  /\ promptPending' = promptPending - 1
  /\ UNCHANGED <<nPromptCalls, printer, dictation>>

\* handleGeneratePrompt after its await, the call having thrown.
PromptFailed(resp) ==
  /\ promptPending > 0
  /\ PromptThrows(resp)
  /\ Render([Cur EXCEPT !.error = PromptFailedMsg,
                        !.promptApiState = ERROR,
                        !.generatedPrompt = <<>>], imagePending)
  /\ promptPending' = promptPending - 1
  /\ UNCHANGED <<nPromptCalls, printer, dictation>>

\* ImageFirstReturned that goes on to the second request whatever the first
\* response held.
ImageFirstReturnedUnchecked(r, resp) ==
  /\ r \in imagePending
  /\ r.stage = 1
  /\ imagePending' = (imagePending \ {r}) \cup
       {[r EXCEPT !.stage = 2,
                  !.urls = IF ImageThrows(resp) THEN r.urls
                           ELSE Append(r.urls, ExtractImageUrl(resp.parts))]}
  /\ UNCHANGED <<session, promptPending, nPromptCalls, nImageCalls, printer, dictation>>

\* generateColoringBookImage: the first response yields an image, the
\* second request is issued.
ImageFirstReturned(r, resp) ==
  /\ r \in imagePending
  /\ r.stage = 1
  /\ ~ImageThrows(resp)
  /\ imagePending' = (imagePending \ {r}) \cup
       {[r EXCEPT !.stage = 2, !.urls = Append(r.urls, ExtractImageUrl(resp.parts))]}
  /\ UNCHANGED <<session, promptPending, nPromptCalls, nImageCalls, printer, dictation>>

\* ImageSucceeded storing the second image before the first.
ImageSucceededReversed(r, resp) ==
  /\ r \in imagePending
  /\ r.stage = 2
  /\ ~ImageThrows(resp)
  /\ Render([Cur EXCEPT !.imageUrls = <<ExtractImageUrl(resp.parts)>> \o r.urls,
                        !.imageApiState = SUCCESS], imagePending \ {r})
  /\ UNCHANGED <<promptPending, nPromptCalls, printer, dictation>>

\* ImageSucceeded setting the wrong ApiState member.
ImageSucceededWrongState(r, resp) ==
  /\ r \in imagePending
  /\ r.stage = 2
  /\ ~ImageThrows(resp)
  /\ Render([Cur EXCEPT !.imageUrls = Append(r.urls, ExtractImageUrl(resp.parts)),
                        !.imageApiState = IDLE], imagePending \ {r})
  /\ UNCHANGED <<promptPending, nPromptCalls, printer, dictation>>

\* generateColoringBookImage resolves; handleGenerateImage stores the result.
ImageSucceeded(r, resp) ==
  /\ r \in imagePending
  /\ r.stage = 2
  /\ ~ImageThrows(resp)
  /\ Render([Cur EXCEPT !.imageUrls = Append(r.urls, ExtractImageUrl(resp.parts)),
                        !.imageApiState = SUCCESS], imagePending \ {r})
  /\ UNCHANGED <<promptPending, nPromptCalls, printer, dictation>>

\* ImageFailed without `setImageUrls(null)`.
ImageFailedKeepsImages(r, resp) ==
  /\ r \in imagePending
  /\ ImageThrows(resp)
  /\ Render([Cur EXCEPT !.error = ImageFailedMsg,
                        !.imageApiState = ERROR], imagePending \ {r})
  /\ UNCHANGED <<promptPending, nPromptCalls, printer, dictation>>

\* generateColoringBookImage throws at either request; the catch of
\* handleGenerateImage runs.
ImageFailed(r, resp) ==
  /\ r \in imagePending
  /\ ImageThrows(resp)
  /\ Render([Cur EXCEPT !.error = ImageFailedMsg,
                        !.imageApiState = ERROR,
                        !.imageUrls = <<>>], imagePending \ {r})
  /\ UNCHANGED <<promptPending, nPromptCalls, printer, dictation>>

\* HandleBackToPromptInput that also forgets the refined prompt.
HandleBackForgetsPrompt ==
  /\ Render([Cur EXCEPT !.currentPage = promptInput, !.imageUrls = <<>>,
                        !.imageApiState = IDLE,
                        !.selectedImageUrls = <<>>,
                        !.generatedPrompt = <<>>,
                        !.promptApiState = IDLE], imagePending)
  /\ UNCHANGED <<promptPending, nPromptCalls, printer, dictation>>

\* handleBackToPromptInput
HandleBackToPromptInput ==
  /\ Render([Cur EXCEPT !.currentPage = promptInput, !.imageUrls = <<>>,
                        !.imageApiState = IDLE,
                        !.selectedImageUrls = <<>>], imagePending)
  /\ UNCHANGED <<promptPending, nPromptCalls, printer, dictation>>

\* handleToggleImageSelection
HandleToggleImageSelection(url) ==
  /\ Render([Cur EXCEPT !.selectedImageUrls = Toggle(selectedImageUrls, url)],
            imagePending)
  /\ UNCHANGED <<promptPending, nPromptCalls, printer, dictation>>

\* HandlePrintSelectedImages that maps over imageUrls, not the selection.
HandlePrintAllImages(opened) ==
  /\ IF Len(selectedImageUrls) = 0
     THEN notice' = SelectNotice /\ UNCHANGED printWindow
     ELSE IF ~opened
          THEN notice' = PopupNotice /\ UNCHANGED printWindow
          ELSE /\ printWindow' = [open |-> TRUE, pages |-> imageUrls]
               /\ UNCHANGED notice
  /\ UNCHANGED <<session, calls, dictation>>

\* handlePrintSelectedImages; `opened` is whether window.open returned a
\* window.  The document holds one page per selected locator.
HandlePrintSelectedImages(opened) ==
  /\ IF Len(selectedImageUrls) = 0
     THEN notice' = SelectNotice /\ UNCHANGED printWindow
     ELSE IF ~opened
          THEN notice' = PopupNotice /\ UNCHANGED printWindow
          ELSE /\ printWindow' = [open |-> TRUE, pages |-> selectedImageUrls]
               /\ UNCHANGED notice
  /\ UNCHANGED <<session, calls, dictation>>

\* ------------------------------------------------------------ user events
\* The events the rendered controls let through.
EditTranscript(text) ==
  /\ currentPage = promptInput
  /\ ~TextareaDisabled
  /\ SetTranscript(text)

SubmitPrompt ==
  /\ currentPage = promptInput
  /\ ~SubmitDisabled
  /\ HandleGeneratePrompt

GoBack ==
  /\ currentPage = imageDisplay
  /\ HandleBackToPromptInput

ToggleSelection(url) ==
  /\ currentPage = imageDisplay
  /\ ShowImages
  /\ Includes(imageUrls, url)
  /\ HandleToggleImageSelection(url)

RequestPrint(opened) ==
  /\ currentPage = imageDisplay
  /\ CanPrint
  /\ HandlePrintSelectedImages(opened)

\* The microphone button calls the start or the stop handler by isRecording.
StartRecording ==
  /\ currentPage = promptInput
  /\ ~MicDisabled
  /\ ~isRecording
  /\ HandleStartRecording

StopRecording ==
  /\ currentPage = promptInput
  /\ ~MicDisabled
  /\ isRecording
  /\ HandleStopRecording

\* The same events with the disabled attributes of the controls not
\* enforced: a control that is rendered calls its handler.
EditTranscriptAny(text) ==
  /\ currentPage = promptInput
  /\ SetTranscript(text)

SubmitPromptAny ==
  /\ currentPage = promptInput
  /\ HandleGeneratePrompt

RequestPrintAny(opened) ==
  /\ currentPage = imageDisplay
  /\ ShowImages
  /\ HandlePrintSelectedImages(opened)

StartRecordingAny ==
  /\ currentPage = promptInput
  /\ ~isRecording
  /\ HandleStartRecording

StopRecordingAny ==
  /\ currentPage = promptInput
  /\ isRecording
  /\ HandleStopRecording

Next ==
  \/ \E text \in Texts : EditTranscript(text)
  \/ SubmitPrompt
  \/ GoBack
  \/ \E url \in Locators : ToggleSelection(url)
  \/ \E opened \in BOOLEAN : RequestPrint(opened)
  \/ StartRecording
  \/ StopRecording
  \/ \E i \in DOMAIN recognitions : RecognitionStart(i)
  \/ \E i \in DOMAIN recognitions, f \in Chunks, c \in Chunks : RecognitionResult(i, f, c)
  \/ \E i \in DOMAIN recognitions, code \in SpeechErrorCodes : RecognitionError(i, code)
  \/ \E i \in DOMAIN recognitions : RecognitionEnd(i)
  \/ \E resp \in PromptResponses : PromptSucceeded(resp)
  \/ \E resp \in PromptResponses : PromptFailed(resp)
  \/ \E r \in imagePending, resp \in ImageResponses : ImageFirstReturned(r, resp)
  \/ \E r \in imagePending, resp \in ImageResponses : ImageSucceeded(r, resp)
  \/ \E r \in imagePending, resp \in ImageResponses : ImageFailed(r, resp)

Spec == Init /\ [][Next]_vars

NextHandlers ==
  \/ \E text \in Texts : EditTranscriptAny(text)
  \/ SubmitPromptAny
  \/ GoBack
  \/ \E url \in Locators : ToggleSelection(url)
  \/ \E opened \in BOOLEAN : RequestPrintAny(opened)
  \/ StartRecordingAny
  \/ StopRecordingAny
  \/ \E i \in DOMAIN recognitions : RecognitionStart(i)
  \/ \E i \in DOMAIN recognitions, f \in Chunks, c \in Chunks : RecognitionResult(i, f, c)
  \/ \E i \in DOMAIN recognitions, code \in SpeechErrorCodes : RecognitionError(i, code)
  \/ \E i \in DOMAIN recognitions : RecognitionEnd(i)
  \/ \E resp \in PromptResponses : PromptSucceeded(resp)
  \/ \E resp \in PromptResponses : PromptFailed(resp)
  \/ \E r \in imagePending, resp \in ImageResponses : ImageFirstReturned(r, resp)
  \/ \E r \in imagePending, resp \in ImageResponses : ImageSucceeded(r, resp)
  \/ \E r \in imagePending, resp \in ImageResponses : ImageFailed(r, resp)

SpecHandlers == Init /\ [][NextHandlers]_vars

\* The awaited client calls of handleGeneratePrompt and handleGenerateImage
\* settle: every outstanding call is eventually answered.  The user who wants
\* the prompt screen back uses the controls that lead there when they stay
\* offered: the back button, the stop button and the textarea.
PromptAnswered == \E resp \in PromptResponses : PromptSucceeded(resp) \/ PromptFailed(resp)

ImageAnswered ==
  \E r \in imagePending, resp \in ImageResponses :
    ImageFirstReturned(r, resp) \/ ImageSucceeded(r, resp) \/ ImageFailed(r, resp)

SpecLive ==
  /\ Spec
  /\ WF_vars(PromptAnswered)
  /\ WF_vars(ImageAnswered)
  /\ WF_vars(GoBack)
  /\ WF_vars(StopRecording)
  /\ WF_vars(EditTranscript(<<"c">>))

TypeOK ==
  /\ Len(transcript) <= MaxTranscript
  /\ generatedPrompt \in Texts
  /\ promptApiState \in ApiState
  /\ imageApiState \in ApiState
  /\ currentPage \in {promptInput, imageDisplay}
  /\ error \in {Null, EmptyInputMsg, PromptFailedMsg, ImageFailedMsg}
  /\ promptPending \in 0..MaxCalls
  /\ nPromptCalls \in 0..MaxCalls

\* ------------------------------------------------------------------ claims
\* C1: in every reachable state every locator of `selected` is one of the
\* current `images`, and `selected` is empty when `images` is absent.
C1_SelectedWithinImages ==
  \A i \in 1..Len(selectedImageUrls) : Includes(imageUrls, selectedImageUrls[i])

\* C2: an image-generation result that arrives after GoBack (the request is
\* no longer the current attempt: the prompt screen is showing) changes no
\* Session field.
C2_StaleResultDiscarded ==
  [][(/\ currentPage = promptInput
      /\ \E r \in imagePending, resp \in ImageResponses :
           ImageSucceeded(r, resp) \/ ImageFailed(r, resp))
     => UNCHANGED session]_vars


\* C3: every successful prompt refinement starts exactly one image request,
\* issued with the refinedPrompt that success stored; and no step other than
\* a prompt success starts an image request.
C3_OneImageRequestPerPromptSuccess ==
  [][/\ (\E resp \in PromptResponses : PromptSucceeded(resp))
          => /\ nImageCalls' = nImageCalls + 1
             /\ imagePending' = imagePending \cup
                  {[id |-> nImageCalls', prompt |-> generatedPrompt',
                    stage |-> 1, urls |-> <<>>]}
             /\ generatedPrompt' # <<>>
     /\ nImageCalls' # nImageCalls
          => \E resp \in PromptResponses : PromptSucceeded(resp)]_vars

\* Two prompts succeeded (the second after a GoBack), two image requests.
C3_Witness == nPromptCalls = 2 /\ nImageCalls = 2 /\ currentPage = imageDisplay

\* C4: a submit with a transcript that trims to empty stays on the prompt
\* screen, sets promptStatus = Failed and an error message, and calls
\* neither client (the effect that follows the render included).
C4_EmptySubmitCallsNothing ==
  [][(SubmitPromptAny /\ Trim(transcript) = <<>>)
       => /\ currentPage' = promptInput
          /\ promptApiState' = ERROR
          /\ error' # Null
          /\ UNCHANGED calls]_vars

\* An empty submit has happened, for the empty and for a blank transcript.
C4_Witness ==
  /\ error = EmptyInputMsg
  /\ promptApiState = ERROR
  /\ transcript = <<" ">>

\* C5 as stated: toggling the same locator twice in a row gives back the
\* same sequence, order included, whether or not it was selected before.
C5_ToggleTwiceRestoresOrder ==
  [][\A url \in Locators :
       ToggleSelection(url) => Toggle(selectedImageUrls', url) = selectedImageUrls]_vars

Range(seq) == {seq[i] : i \in 1..Len(seq)}

\* C5 amended: toggling the same locator twice in a row gives back the same
\* locators; the order is the original one when the locator was not selected
\* before, and otherwise the locator has moved to the end while the others
\* keep their order.
C5_ToggleTwiceRestoresSet ==
  [][\A url \in Locators :
       ToggleSelection(url) =>
         LET twice == Toggle(selectedImageUrls', url)
         IN /\ Range(twice) = Range(selectedImageUrls)
            /\ Len(twice) = Len(selectedImageUrls)
            /\ ~Includes(selectedImageUrls, url) => twice = selectedImageUrls
            /\ Includes(selectedImageUrls, url)
                 => twice = Append(Filter(selectedImageUrls, url), url)]_vars

\* Both images are selected, in the order opposite to the one shown.
C5_Witness ==
  /\ ShowImages
  /\ Len(selectedImageUrls) = 2
  /\ selectedImageUrls[1] = imageUrls[2]
  /\ selectedImageUrls[2] = imageUrls[1]

\* C6: GoBack happens only on the image screen; it shows the prompt screen,
\* clears images and selection, sets imageStatus = Idle and leaves
\* transcript, refinedPrompt and promptStatus as they were.
C6_GoBackEffect ==
  [][GoBack => /\ currentPage = imageDisplay
               /\ currentPage' = promptInput
               /\ imageUrls' = <<>>
               /\ imageApiState' = IDLE
               /\ selectedImageUrls' = <<>>
               /\ UNCHANGED <<transcript, generatedPrompt, promptApiState>>]_vars

\* GoBack was taken while the image request was still in flight.
C6_Witness ==
  /\ currentPage = promptInput
  /\ promptApiState = SUCCESS
  /\ imageApiState = IDLE
  /\ imagePending # {}

\* C7: a print request changes no Session field; with an empty selection it
\* only raises the notice; with a non-empty one the document it writes has
\* exactly the selected locators, one page each, in their order (or, when
\* the print window cannot be opened, no document and the pop-up notice).
C7_PrintLeavesSession ==
  [][\A opened \in BOOLEAN :
       RequestPrintAny(opened) =>
         /\ UNCHANGED <<session, calls, dictation>>
         /\ Len(selectedImageUrls) = 0
              => notice' = SelectNotice /\ UNCHANGED printWindow
         /\ (Len(selectedImageUrls) > 0 /\ opened)
              => /\ printWindow' = [open |-> TRUE, pages |-> selectedImageUrls]
                 /\ UNCHANGED notice
         /\ (Len(selectedImageUrls) > 0 /\ ~opened)
              => notice' = PopupNotice /\ UNCHANGED printWindow]_vars

\* A two-page document was printed, and later a print with nothing selected
\* raised the notice.
C7_Witness ==
  /\ printWindow.open
  /\ Len(printWindow.pages) = 2
  /\ notice = SelectNotice
  /\ imageApiState = SUCCESS

\* C8: the screen changes from prompt to image only in the prompt-success
\* step, which is the step that sets promptStatus = Succeeded, and from image
\* to prompt only in GoBack.
C8_ScreenChanges ==
  [][/\ (currentPage = promptInput /\ currentPage' = imageDisplay)
          => /\ \E resp \in PromptResponses : PromptSucceeded(resp)
             /\ promptApiState # SUCCESS
             /\ promptApiState' = SUCCESS
     /\ (currentPage = imageDisplay /\ currentPage' = promptInput)
          => GoBack]_vars

\* The screen went to the image screen and back, after a failed image call.
C8_Witness ==
  /\ currentPage = promptInput
  /\ nImageCalls > 0
  /\ error = ImageFailedMsg

\* C9: whenever imageStatus is InFlight, promptStatus is Succeeded and the
\* image screen is showing; and every step that sets imageStatus to InFlight
\* or starts an image request does so in a render with promptStatus =
\* Succeeded on the image screen.
C9_InFlightNeedsPromptSuccess ==
  /\ [](imageApiState = LOADING
          => promptApiState = SUCCESS /\ currentPage = imageDisplay)
  /\ [][((imageApiState # LOADING /\ imageApiState' = LOADING)
           \/ nImageCalls' # nImageCalls)
          => /\ promptApiState' = SUCCESS
             /\ currentPage' = imageDisplay
             /\ imageApiState' = LOADING]_vars

\* The second image request is in flight while the first is still pending.
C9_Witness ==
  /\ imageApiState = LOADING
  /\ Cardinality(imagePending) = 2

\* C10: whenever errorMessage is present, exactly one of promptStatus and
\* imageStatus is Failed.
C10_ErrorHasOneOwner ==
  error # Null => ((promptApiState = ERROR) # (imageApiState = ERROR))


\* C11: at most one client call, prompt refinement or image generation, is
\* outstanding in every reachable state.
C11_AtMostOneCallOutstanding == promptPending + Cardinality(imagePending) <= 1

\* C12: the second style request exists only after a first response that
\* held an image; a resolved call stores exactly [A, B] in that order; a
\* failed call stores nothing and is over, whichever request failed.
C12_ImageClientSequential ==
  /\ [](\A r \in imagePending :
          \/ r.stage = 1 /\ r.urls = <<>>
          \/ r.stage = 2 /\ Len(r.urls) = 1 /\ r.urls[1] \in Locators)
  /\ [][\A r \in imagePending :
          /\ \A resp \in ImageResponses :
               /\ ImageSucceeded(r, resp)
                    => /\ r.stage = 2
                       /\ imageUrls' = <<r.urls[1], ExtractImageUrl(resp.parts)>>
                       /\ ExtractImageUrl(resp.parts) \in Locators
               /\ ImageFailed(r, resp)
                    => /\ imageUrls' = <<>>
                       /\ \A q \in imagePending' : q.id # r.id
          /\ (r.stage = 1 /\ \E q \in imagePending' : q.id = r.id /\ q.stage = 2)
               => \E resp \in ImageResponses :
                    ~ImageThrows(resp) /\ ImageFirstReturned(r, resp)]_vars

\* Two different images are stored.
C12_Witness ==
  /\ imageApiState = SUCCESS
  /\ Len(imageUrls) = 2
  /\ imageUrls[1] # imageUrls[2]

\* C13: a failed call sets its own status to Failed and the message, clears
\* its own result and leaves the screen and the other status alone; a prompt
\* failure starts no image request; after an image failure nothing is selected.
C13_FailureEffects ==
  [][/\ (\E resp \in PromptResponses : PromptFailed(resp))
          => /\ promptApiState' = ERROR
             /\ error' # Null
             /\ generatedPrompt' = <<>>
             /\ UNCHANGED <<currentPage, imageApiState, nImageCalls>>
     /\ (\E r \in imagePending, resp \in ImageResponses : ImageFailed(r, resp))
          => /\ imageApiState' = ERROR
             /\ error' # Null
             /\ imageUrls' = <<>>
             /\ UNCHANGED <<currentPage, promptApiState>>
             /\ selectedImageUrls' = <<>>]_vars

\* C14: the first submit, its prompt success and its image success, with
\* nothing else in between, end on the image screen with the refined prompt,
\* both statuses Succeeded, the two images in the order received, nothing
\* selected and no error.
C14_FirstRunEndState ==
  [][/\ \A resp \in PromptResponses :
          (PromptSucceeded(resp) /\ nPromptCalls = 1)
            => /\ generatedPrompt' = Trim(resp.text)
               /\ currentPage' = imageDisplay
               /\ imageApiState' = LOADING
     /\ \A r \in imagePending, resp \in ImageResponses :
          (ImageSucceeded(r, resp) /\ nPromptCalls = 1 /\ currentPage = imageDisplay)
            => /\ currentPage' = imageDisplay
               /\ promptApiState' = SUCCESS
               /\ generatedPrompt' = r.prompt
               /\ generatedPrompt' # <<>>
               /\ imageApiState' = SUCCESS
               /\ imageUrls' = <<r.urls[1], ExtractImageUrl(resp.parts)>>
               /\ selectedImageUrls' = <<>>
               /\ error' = Null]_vars

\* The first run has ended with two different images.
C14_Witness ==
  /\ nPromptCalls = 1
  /\ nImageCalls = 1
  /\ imagePending = {}
  /\ currentPage = imageDisplay
  /\ imageApiState = SUCCESS
  /\ imageUrls[1] # imageUrls[2]
  /\ selectedImageUrls = <<>>

\* C15: images shown on the image screen are the result of the latest image
\* request, the one issued for the current refinedPrompt: every step that
\* stores images while the image screen shows stores that request's result.
C15_ImagesAreFresh ==
  [][\A r \in imagePending, resp \in ImageResponses :
       (ImageSucceeded(r, resp) /\ currentPage' = imageDisplay)
         => r.id = nImageCalls /\ r.prompt = generatedPrompt]_vars

\* C16: while promptStatus stays InFlight no step changes the transcript and
\* no prompt request is issued.
C16_TranscriptFrozenWhileLoading ==
  [][(promptApiState = LOADING /\ promptApiState' = LOADING)
       => transcript' = transcript /\ nPromptCalls' = nPromptCalls]_vars

\* C17: a toggle event is delivered only when imageStatus is Succeeded and
\* its locator is one of the images, it changes nothing but the selection,
\* and nothing else makes the selection a different non-empty one.
C17_ToggleOnlyOnShownImages ==
  [][/\ \A url \in Locators :
          ToggleSelection(url)
            => /\ imageApiState = SUCCESS
               /\ Includes(imageUrls, url)
               /\ UNCHANGED <<transcript, generatedPrompt, imageUrls, promptApiState,
                              imageApiState, error, currentPage, calls>>
     /\ (selectedImageUrls' # selectedImageUrls /\ selectedImageUrls' # <<>>)
          => \E url \in Locators : ToggleSelection(url)]_vars

\* An image was selected while a newer request is still in flight.
C17_Witness ==
  /\ Len(selectedImageUrls) = 1
  /\ imageApiState = SUCCESS
  /\ imagePending # {}

\* The prompt screen with the textarea and the submit button enabled.
CanEditAndSubmit ==
  /\ currentPage = promptInput
  /\ ~TextareaDisabled
  /\ ~SubmitDisabled

C19_ImagesIffSucceeded ==
  /\ (imageApiState = SUCCESS) <=> (imageUrls # <<>>)
  /\ imageUrls # <<>>
       => Len(imageUrls) = 2 /\ imageUrls[1] \in Locators /\ imageUrls[2] \in Locators

\* A request left behind by GoBack stored its images on the prompt screen.
C19_Witness ==
  /\ imageApiState = SUCCESS
  /\ Len(imageUrls) = 2
  /\ currentPage = promptInput

\* C20: without the speech capability a start only raises the notice;
\* recording becomes active only in a recognizer's start event; a result
\* event appends its final text to the transcript and its interim text never
\* changes the transcript; stop, and an error or end event delivered to the
\* mounted component, make recording inactive, which enables the textarea
\* unless a prompt call is in flight; no submit happens while recording.
C20_DictationLifecycle ==
  [][/\ (StartRecording /\ ~speechSupported)
          => /\ notice' = UnsupportedNotice
             /\ ~isRecording'
             /\ transcript' = transcript
             /\ recognitions' = recognitions
     /\ (isRecording' /\ ~isRecording)
          => \E i \in DOMAIN recognitions : RecognitionStart(i)
     /\ \A i \in DOMAIN recognitions, f \in Chunks, c \in Chunks :
          RecognitionResult(i, f, c)
            => transcript' = IF f = <<>> THEN transcript
                             ELSE IF transcript = <<>> THEN f
                             ELSE transcript \o <<" ">> \o f
     /\ (\/ StopRecording
         \/ \E i \in DOMAIN recognitions :
              /\ recognitions[i].attached /\ recognitions[i].mounted
              /\ \/ RecognitionEnd(i)
                 \/ \E code \in SpeechErrorCodes : RecognitionError(i, code))
          => /\ ~isRecording'
             /\ ~IsLoading' => ~TextareaDisabled'
     /\ SubmitPrompt => ~isRecording]_vars

\* Two final results were dictated and the recognizer has ended.
C20_Witness ==
  /\ transcript = <<"c", " ", "c">>
  /\ ~isRecording
  /\ Len(recognitions) > 0
  /\ recognitions[1].state = "ended"

====
